---------------------------- MODULE Spec2Model ----------------------------
(***************************************************************************)
(* Model of PyWebScraping/webdrivers/FireFox.py:                           *)
(*   FirefoxStartArgs, FirefoxOptionsManager  (the two assemblers),        *)
(*   FirefoxWebDriver                         (the local controller),      *)
(*   FirefoxRemoteWebDriver                   (the remote controller).     *)
(* The selenium library and the remote automation servers are the          *)
(* environment: a server is a table of sessions, a webdriver object is a   *)
(* handle that carries the address it was built against and a mutable      *)
(* session_id.  The base classes of PyWebScraping.webdrivers.BaseDriver    *)
(* are not part of FireFox.py; what they do is taken from the prose        *)
(* specification and marked where it is used.                              *)
(***************************************************************************)
EXTENDS Integers, Sequences, FiniteSets, TLC

(***************************************************************************)
(* Python values.  An optional value (x | None) is a sequence of length    *)
(* at most one: None is <<>>, a present value x is <<x>>.                  *)
(***************************************************************************)
None == <<>>

Some(x) == <<x>>

IsNone(o) == o = <<>>

Get(o) == o[1]

Opt(S) == {None} \cup {Some(x) : x \in S}

(***************************************************************************)
(* Bounds of the model.                                                    *)
(***************************************************************************)
\* number of FirefoxRemoteWebDriver.create_driver calls explored
MaxCalls == 2

\* number of FirefoxWebDriver.create_driver calls explored
MaxLaunches == 2

\* how many controllers a program constructs, and how many times it applies
\* hide_automation
MaxControllers == 2

MaxHides == 2

(***************************************************************************)
(* Strings.  A string is kept as the sequence of its pieces, so that the   *)
(* separators and the conversion specifiers of a template can be told      *)
(* apart from the text around them; Str gives the string itself.           *)
(***************************************************************************)
RECURSIVE Str(_)
Str(pieces) == IF pieces = <<>> THEN "" ELSE Head(pieces) \o Str(Tail(pieces))

\* Python's  template % value  for a template with one conversion: %d takes
\* an integer and writes it in decimal, %s takes a string (given in pieces)
RECURSIVE Format(_, _)
Format(template, value) ==
    IF template = <<>> THEN <<>>
    ELSE IF Head(template) = "%d"
         THEN <<ToString(value)>> \o Format(Tail(template), value)
    ELSE IF Head(template) = "%s"
         THEN value \o Format(Tail(template), value)
    ELSE <<Head(template)>> \o Format(Tail(template), value)

\* Python's  sep.join(parts), each part and the result in pieces
RECURSIVE Join(_, _)
Join(parts, sep) ==
    IF parts = <<>> THEN <<>>
    ELSE IF Len(parts) = 1 THEN Head(parts)
    ELSE Head(parts) \o <<sep>> \o Join(Tail(parts), sep)

(***************************************************************************)
(* FirefoxStartArgs: the launch-argument assembler.                        *)
(***************************************************************************)
\* BrowserStartArgs.__init__ (BaseDriver, not in FireFox.py): the stored
\* attributes and the start command, which is the executable followed by
\* the fragment of every present field (port, directory, headless, mute),
\* joined by single spaces
BrowserStartArgs(browser_file_name, debugging_port_command_line, webdriver_dir_command_line, headless_mode_command_line, mute_audio_command_line, webdriver_dir, debugging_port, headless_mode, mute_audio) ==
    LET fragments ==
            <<browser_file_name>>
            \o (IF IsNone(debugging_port) THEN <<>>
                ELSE <<Format(debugging_port_command_line, Get(debugging_port))>>)
            \o (IF IsNone(webdriver_dir) THEN <<>>
                ELSE <<Format(webdriver_dir_command_line, Get(webdriver_dir))>>)
            \o (IF headless_mode THEN <<headless_mode_command_line>> ELSE <<>>)
            \o (IF mute_audio THEN <<mute_audio_command_line>> ELSE <<>>)
    IN  [webdriver_dir  |-> webdriver_dir,
         debugging_port |-> debugging_port,
         headless_mode  |-> headless_mode,
         mute_audio     |-> mute_audio,
         start_command  |-> Join(fragments, " ")]

\* a variant of lines 122-123 with the two flag templates exchanged
FirefoxStartArgs_FlagsSwapped(webdriver_dir, debugging_port, headless_mode, mute_audio) ==
    BrowserStartArgs(<<"firefox.exe">>,
                     <<"--remote-debugging-port", " ", "%d">>,
                     <<"--profile", " ", "\"", "%s", "\"">>,
                     <<"--mute-audio">>,
                     <<"--headless">>,
                     webdriver_dir, debugging_port, headless_mode, mute_audio)

\* a variant of lines 126-127 with the headless and mute-audio values exchanged
FirefoxStartArgs_ModesSwapped(webdriver_dir, debugging_port, headless_mode, mute_audio) ==
    BrowserStartArgs(<<"firefox.exe">>,
                     <<"--remote-debugging-port", " ", "%d">>,
                     <<"--profile", " ", "\"", "%s", "\"">>,
                     <<"--headless">>,
                     <<"--mute-audio">>,
                     webdriver_dir, debugging_port, mute_audio, headless_mode)

\* FirefoxStartArgs.__init__, lines 118-128
FirefoxStartArgs(webdriver_dir, debugging_port, headless_mode, mute_audio) ==
    BrowserStartArgs(<<"firefox.exe">>,
                     <<"--remote-debugging-port", " ", "%d">>,
                     <<"--profile", " ", "\"", "%s", "\"">>,
                     <<"--headless">>,
                     <<"--mute-audio">>,
                     webdriver_dir, debugging_port, headless_mode, mute_audio)

(***************************************************************************)
(* FirefoxOptionsManager: the options assembler.  Its options object is    *)
(* the debugger address and the list of arguments.                         *)
(***************************************************************************)
\* FirefoxOptionsManager.renew_webdriver_options, line 76: a new Options()
renew_webdriver_options == [debugger_address |-> None, arguments |-> <<>>]

\* selenium's Options.add_argument: append to the argument list
add_argument(options, argument) ==
    [options EXCEPT !.arguments = Append(@, argument)]

\* BrowserOptionsManager.__init__ (BaseDriver, not in FireFox.py): a fresh
\* options object, to which the debugger address, the user agent (its parts
\* joined by spaces) and the proxy are applied when present
BrowserOptionsManager(debugging_port_command, user_agent_command, proxy_command, debugging_port, user_agent, proxy) ==
    LET o0 == renew_webdriver_options
        o1 == IF IsNone(debugging_port) THEN o0
              ELSE [o0 EXCEPT !.debugger_address =
                        Some(Format(debugging_port_command, Get(debugging_port)))]
        o2 == IF IsNone(user_agent) THEN o1
              ELSE add_argument(o1, Format(user_agent_command,
                                           Join(Get(user_agent), " ")))
        o3 == IF IsNone(proxy) THEN o2
              ELSE add_argument(o2, Format(proxy_command, Get(proxy)))
    IN  [debugging_port |-> debugging_port,
         user_agent     |-> user_agent,
         proxy          |-> proxy,
         options        |-> o3]

\* FirefoxOptionsManager.__init__, line 49
FirefoxOptionsManager(debugging_port, user_agent, proxy) ==
    BrowserOptionsManager(<<"127.0.0.1:", "%d">>, <<"user-agent=", "%s">>,
                          <<"--proxy-server=", "%s">>,
                          debugging_port, user_agent, proxy)

\* a variant of lines 60-63 that adds only the arguments not yet present
hide_automation_Once(manager) ==
    LET hiding == << <<"--disable-blink-features=AutomationControlled">>,
                     <<"--no-first-run">>, <<"--no-service-autorun">>,
                     <<"--password-store=basic">> >>
        absent == SelectSeq(hiding, LAMBDA a :
                      \A i \in DOMAIN manager.options.arguments :
                          manager.options.arguments[i] # a)
    IN  [manager EXCEPT !.options.arguments = @ \o absent]

\* FirefoxOptionsManager.hide_automation, lines 60-63
hide_automation(manager) ==
    LET o1 == add_argument(manager.options, <<"--disable-blink-features=AutomationControlled">>)
        o2 == add_argument(o1, <<"--no-first-run">>)
        o3 == add_argument(o2, <<"--no-service-autorun">>)
        o4 == add_argument(o3, <<"--password-store=basic">>)
    IN  [manager EXCEPT !.options = o4]


(***************************************************************************)
(* The remote side.                                                        *)
(***************************************************************************)
\* addresses of remote automation servers (command_executor values)
Addresses == {"http://127.0.0.1:4444", "http://10.0.0.2:4444"}

\* identifiers of sessions that exist before the controller is used
Targets == {"abc123", "xyz789"}

\* the (implicitly_wait, page_load_timeout) pairs a controller may be
\* constructed with, in seconds: the defaults of lines 259-260, and a pair
\* the caller chose
TimeoutPairs == {<<5, 5>>, <<9, 7>>}

\* the sessions each server holds before the controller is used: the first
\* server has both targets open, the second only "xyz789"
Session(w) == [windows |-> w, implicit_wait |-> 0, page_load_timeout |-> 0,
               closes |-> 0, created_by |-> 0]

InitialServers ==
    [a \in Addresses |->
        IF a = "http://127.0.0.1:4444"
        THEN [s \in Targets |-> Session(1)]
        ELSE [s \in {"xyz789"} |-> Session(1)]]

\* the identifier a server gives to the n-th session it is asked to create
NewSessionId(n) == "session-" \o ToString(n)

VARIABLES
    remote,      \* the FirefoxRemoteWebDriver object: its attributes
    handles,     \* the webdriver.Remote objects built so far, by number
    servers,     \* address -> session id -> session (the remote servers)
    rcall,       \* the last create_driver call of the remote controller
    ncalls       \* how many remote create_driver calls were made

rvars == <<remote, handles, servers, rcall, ncalls>>

VARIABLES
    local,       \* the FirefoxWebDriver object: its attributes
    managers,    \* the live FirefoxOptionsManager objects, by object number
    drivers,     \* the webdriver.Firefox objects built so far, by number
    lcall,       \* the last operation on the local controller
    synced       \* the field values the assemblers were last built from

lvars == <<local, managers, drivers, lcall, synced>>

VARIABLES
    controllers, \* the controllers a program has constructed, in order
    assemblers,  \* the FirefoxOptionsManager objects they refer to, by number
    hcall        \* the last operation on one of those controllers

fvars == <<controllers, assemblers, hcall>>

VARIABLES
    frames,      \* the create_driver calls of concurrent callers: where each is
    serialized   \* whether the callers take turns, one whole call at a time

cvars == <<frames, serialized>>

vars == <<remote, handles, servers, rcall, ncalls,
          local, managers, drivers, lcall, synced,
          controllers, assemblers, hcall,
          frames, serialized>>


(***************************************************************************)
(* One call of FirefoxRemoteWebDriver.create_driver runs on a "world": the *)
(* controller, the handles, the servers, and the trace of what the call    *)
(* has done so far.  Each statement of the method is one step, a function  *)
(* from worlds to worlds; Blocked says when the statement raises instead.  *)
(***************************************************************************)
World(ctl, hs, srv) == [ctl |-> ctl, handles |-> hs, servers |-> srv, trace |-> <<>>]

Event(cmd, h, a, s, v) ==
    [cmd |-> cmd, handle |-> h, address |-> a, session |-> s, value |-> v]

\* the session a handle routes its commands to, and whether it is there
HandleAddress(W) == W.handles[W.ctl.driver].command_executor

HandleSession(W) == W.handles[W.ctl.driver].session_id

SessionExists(W) ==
    /\ W.ctl.driver # 0
    /\ HandleSession(W) \in DOMAIN W.servers[HandleAddress(W)]

HasOpenWindow(W) ==
    /\ SessionExists(W)
    /\ W.servers[HandleAddress(W)][HandleSession(W)].windows > 0

\* how many sessions the servers have been asked to create so far
SessionsCreated(W) == Len(W.handles)

\* a variant that forgets lines 296-297: a supplied command_executor is dropped
StoreArguments_KeepAddress(W, command_executor, session_id) ==
    IF ~IsNone(session_id)
    THEN [W EXCEPT !.ctl.session_id = Get(session_id)]
    ELSE W

\* lines 296-300: a supplied argument overwrites the stored attribute
StoreArguments(W, command_executor, session_id) ==
    LET c1 == IF ~IsNone(command_executor)
              THEN [W.ctl EXCEPT !.command_executor = Get(command_executor)]
              ELSE W.ctl
        c2 == IF ~IsNone(session_id)
              THEN [c1 EXCEPT !.session_id = Get(session_id)]
              ELSE c1
    IN  [W EXCEPT !.ctl = c2]

\* a variant of lines 302-304 that constructs the handle and drops it:
\* self.driver is not assigned
ConstructRemote_NotStored(W) ==
    LET h   == Len(W.handles) + 1
        a   == W.ctl.command_executor
        sid == NewSessionId(SessionsCreated(W) + 1)
        new == [Session(1) EXCEPT !.created_by = h]
    IN  [W EXCEPT
            !.handles = Append(@, [command_executor |-> a, session_id |-> sid,
                                   options |-> W.ctl.webdriver_options_manager.options]),
            !.servers[a] = [s \in DOMAIN @ \cup {sid} |->
                               IF s = sid THEN new ELSE @[s]],
            !.trace = Append(@, Event("new_session", h, a, sid, 0))]

\* lines 302-304: webdriver.Remote(...) asks the server at the stored address
\* for a new session and returns a handle bound to it; self.driver is
\* assigned the handle
ConstructRemote(W) ==
    LET h   == Len(W.handles) + 1
        a   == W.ctl.command_executor
        sid == NewSessionId(SessionsCreated(W) + 1)
        new == [Session(1) EXCEPT !.created_by = h]
    IN  [W EXCEPT
            !.handles = Append(@, [command_executor |-> a, session_id |-> sid,
                                   options |-> W.ctl.webdriver_options_manager.options]),
            !.servers[a] = [s \in DOMAIN @ \cup {sid} |->
                               IF s = sid THEN new ELSE @[s]],
            !.ctl.driver = h,
            !.trace = Append(@, Event("new_session", h, a, sid, 0))]

\* EmptyWebDriver.close_window() with no argument: the close-window command
\* goes through self.driver, to the session that handle is bound to
close_window(W) ==
    LET a == HandleAddress(W)
        s == HandleSession(W)
    IN  [W EXCEPT
            !.servers[a][s].windows = @ - 1,
            !.servers[a][s].closes = @ + 1,
            !.trace = Append(@, Event("close", W.ctl.driver, a, s, 0))]

\* a variant of line 307 that binds the handle to the session identifier of
\* the usage example, whatever the stored one is
RebindSession_Fixed(W) ==
    [W EXCEPT
        !.handles[W.ctl.driver].session_id = "abc123",
        !.trace = Append(@, Event("rebind", W.ctl.driver, HandleAddress(W),
                                  "abc123", 0))]

\* line 307: self.driver.session_id = self.session_id
RebindSession(W) ==
    [W EXCEPT
        !.handles[W.ctl.driver].session_id = W.ctl.session_id,
        !.trace = Append(@, Event("rebind", W.ctl.driver, HandleAddress(W),
                                  W.ctl.session_id, 0))]

\* EmptyWebDriver.switch_to_window() with no argument: focus the open window
\* of the session self.driver is bound to
switch_to_window(W) ==
    [W EXCEPT !.trace = Append(@, Event("switch_to_window", W.ctl.driver,
                                        HandleAddress(W), HandleSession(W), 0))]

\* line 310: self.driver.implicitly_wait(self.base_implicitly_wait)
ImplicitlyWait(W) ==
    LET a == HandleAddress(W)
        s == HandleSession(W)
        v == W.ctl.base_implicitly_wait
    IN  [W EXCEPT
            !.servers[a][s].implicit_wait = v,
            !.trace = Append(@, Event("implicitly_wait", W.ctl.driver, a, s, v))]

\* a variant of line 311 that passes base_implicitly_wait
SetPageLoadTimeout_Implicit(W) ==
    LET a == HandleAddress(W)
        s == HandleSession(W)
        v == W.ctl.base_implicitly_wait
    IN  [W EXCEPT
            !.servers[a][s].page_load_timeout = v,
            !.trace = Append(@, Event("set_page_load_timeout", W.ctl.driver, a, s, v))]

\* line 311: self.driver.set_page_load_timeout(self.base_page_load_timeout)
SetPageLoadTimeout(W) ==
    LET a == HandleAddress(W)
        s == HandleSession(W)
        v == W.ctl.base_page_load_timeout
    IN  [W EXCEPT
            !.servers[a][s].page_load_timeout = v,
            !.trace = Append(@, Event("set_page_load_timeout", W.ctl.driver, a, s, v))]

\* a variant without line 306: the throwaway session is never closed
RemoteSteps_NoClose ==
    << "Remote", "session_id", "switch_to_window",
       "implicitly_wait", "set_page_load_timeout" >>

\* a variant with lines 306 and 307 exchanged: rebind, then close
RemoteSteps_RebindFirst ==
    << "Remote", "session_id", "close_window", "switch_to_window",
       "implicitly_wait", "set_page_load_timeout" >>

\* a variant that runs lines 302-304 twice: the handle is constructed, then
\* constructed again
RemoteSteps_ConstructTwice ==
    << "Remote", "Remote", "close_window", "session_id", "switch_to_window",
       "implicitly_wait", "set_page_load_timeout" >>

\* the statements of create_driver after the arguments are stored, in the
\* order of lines 302-311
RemoteSteps ==
    << "Remote", "close_window", "session_id", "switch_to_window",
       "implicitly_wait", "set_page_load_timeout" >>

ApplyStep(step, W) ==
    CASE step = "Remote"                -> ConstructRemote(W)
      [] step = "close_window"          -> close_window(W)
      [] step = "session_id"            -> RebindSession(W)
      [] step = "switch_to_window"      -> switch_to_window(W)
      [] step = "implicitly_wait"       -> ImplicitlyWait(W)
      [] step = "set_page_load_timeout" -> SetPageLoadTimeout(W)

\* the external calls, which can fail; the assignment of line 307 cannot
ExternalSteps == {"Remote", "close_window", "switch_to_window",
                  "implicitly_wait", "set_page_load_timeout"}

\* a statement raises when the environment fails it (failAt), or when the
\* server has no such session or window for the command
Blocked(step, W, failAt) ==
    \/ step = failAt
    \/ step \in {"close_window", "switch_to_window"} /\ ~HasOpenWindow(W)
    \/ step \in {"implicitly_wait", "set_page_load_timeout"} /\ ~SessionExists(W)
    \/ step = "session_id" /\ W.ctl.driver = 0

\* a variant that catches the exception of a statement and goes on
RECURSIVE RunFrom_Swallow(_, _, _, _)
RunFrom_Swallow(steps, i, W, failAt) ==
    IF i > Len(steps)
    THEN [world |-> W, outcome |-> "returned", failed_step |-> "none"]
    ELSE IF Blocked(steps[i], W, failAt)
         THEN RunFrom_Swallow(steps, i + 1, W, failAt)
         ELSE RunFrom_Swallow(steps, i + 1, ApplyStep(steps[i], W), failAt)

\* a variant that resets self.driver to None before it re-raises
RECURSIVE RunFrom_Rollback(_, _, _, _)
RunFrom_Rollback(steps, i, W, failAt) ==
    IF i > Len(steps)
    THEN [world |-> W, outcome |-> "returned", failed_step |-> "none"]
    ELSE IF Blocked(steps[i], W, failAt)
         THEN [world |-> [W EXCEPT !.ctl.driver = 0],
               outcome |-> "raised", failed_step |-> steps[i]]
         ELSE RunFrom_Rollback(steps, i + 1, ApplyStep(steps[i], W), failAt)

\* run the statements from the i-th on; an exception is not caught anywhere
\* in create_driver, so the first statement that raises ends the call
RECURSIVE RunFrom(_, _, _, _)
RunFrom(steps, i, W, failAt) ==
    IF i > Len(steps)
    THEN [world |-> W, outcome |-> "returned", failed_step |-> "none"]
    ELSE IF Blocked(steps[i], W, failAt)
         THEN [world |-> W, outcome |-> "raised", failed_step |-> steps[i]]
         ELSE RunFrom(steps, i + 1, ApplyStep(steps[i], W), failAt)

\* a variant that puts the stored address and session identifier back when
\* a statement raises
create_driver_RestoreArguments(W, command_executor, session_id, failAt) ==
    LET r == RunFrom(RemoteSteps, 1,
                     StoreArguments(W, command_executor, session_id), failAt)
    IN  IF r.outcome = "raised"
        THEN [r EXCEPT !.world.ctl.command_executor = W.ctl.command_executor,
                       !.world.ctl.session_id = W.ctl.session_id]
        ELSE r

\* FirefoxRemoteWebDriver.create_driver(command_executor, session_id)
create_driver(W, command_executor, session_id, failAt) ==
    RunFrom(RemoteSteps, 1, StoreArguments(W, command_executor, session_id), failAt)

(***************************************************************************)
(* Initial state: a freshly constructed FirefoxRemoteWebDriver             *)
(* (lines 275-280) and the servers before it is used.                      *)
(***************************************************************************)
NoCall ==
    [args |-> [command_executor |-> None, session_id |-> None],
     before |-> [command_executor |-> "", session_id |-> "", driver |-> 0,
                 handles |-> <<>>],
     outcome |-> "none", failed_step |-> "none", trace |-> <<>>,
     succeeded |-> 0]

\* FirefoxRemoteWebDriver(command_executor, session_id, implicitly_wait=,
\* page_load_timeout=) with the default options manager of line 258
RemoteConstructed(a, s, t) ==
    /\ remote = [command_executor |-> a,
                 session_id |-> s,
                 webdriver_options_manager |-> FirefoxOptionsManager(None, None, None),
                 base_implicitly_wait |-> t[1],
                 base_page_load_timeout |-> t[2],
                 driver |-> 0]
    /\ handles = <<>>
    /\ servers = InitialServers
    /\ rcall = NoCall
    /\ ncalls = 0

RemoteInit ==
    \E a \in Addresses, s \in Targets, t \in TimeoutPairs : RemoteConstructed(a, s, t)

\* the caller invokes create_driver with any mix of supplied and omitted
\* arguments; the environment may fail one of the external calls
RemoteCreateDriver(command_executor, session_id, failAt) ==
    /\ ncalls < MaxCalls
    /\ LET r == create_driver(World(remote, handles, servers),
                              command_executor, session_id, failAt)
       IN  /\ remote' = r.world.ctl
           /\ handles' = r.world.handles
           /\ servers' = r.world.servers
           /\ rcall' = [args |-> [command_executor |-> command_executor,
                                  session_id |-> session_id],
                        before |-> [command_executor |-> remote.command_executor,
                                    session_id |-> remote.session_id,
                                    driver |-> remote.driver,
                                    handles |-> handles],
                        outcome |-> r.outcome,
                        failed_step |-> r.failed_step,
                        trace |-> r.world.trace,
                        succeeded |-> rcall.succeeded
                                      + (IF r.outcome = "returned" THEN 1 ELSE 0)]
    /\ ncalls' = ncalls + 1
    /\ UNCHANGED lvars
    /\ UNCHANGED fvars
    /\ UNCHANGED cvars

RemoteNext ==
    \E ce \in Opt(Addresses), sid \in Opt(Targets), f \in ExternalSteps \cup {"none"} :
        RemoteCreateDriver(ce, sid, f)



(***************************************************************************)
(* Properties of the remote controller.  rcall describes the last          *)
(* create_driver call: its arguments, the controller before it, how it     *)
(* ended and the trace of what it did.                                     *)
(***************************************************************************)
Indices(t, cmd) == {i \in DOMAIN t : t[i].cmd = cmd}

\* the session a stored target identifier names on a server is open
TargetOpen(a, s) == s \in DOMAIN servers[a] /\ servers[a][s].windows > 0

\* the sessions of a server that a webdriver.Remote construction created
Throwaways(a) == {s \in DOMAIN servers[a] : servers[a][s].created_by # 0}

\* the sessions of a server that exist independently of the controller
PreExisting(a) == {s \in DOMAIN servers[a] : servers[a][s].created_by = 0}

\* C1: in every successful remote create_driver exactly one close-window
\* command is issued, it goes to the throwaway session that this call's
\* handle construction created (never to the target), and it comes before
\* the one assignment that sets the handle's session_id to the target.
C1_CloseThenRebind ==
    rcall.outcome = "returned" =>
        LET t       == rcall.trace
            news    == Indices(t, "new_session")
            closes  == Indices(t, "close")
            rebinds == Indices(t, "rebind")
        IN  /\ Cardinality(news) = 1
            /\ Cardinality(closes) = 1
            /\ Cardinality(rebinds) = 1
            /\ \A n \in news, c \in closes, r \in rebinds :
                  /\ n < c /\ c < r
                  /\ t[c].handle = t[n].handle
                  /\ t[c].address = t[n].address
                  /\ t[c].session = t[n].session
                  /\ t[c].session # remote.session_id
                  /\ servers[t[c].address][t[c].session].closes = 1
                  /\ t[r].session = remote.session_id
                  /\ t[r].handle = remote.driver
            /\ handles[remote.driver].session_id = remote.session_id

\* C1 witness: create_driver() with no arguments on a controller built with
\* "http://127.0.0.1:4444" and "abc123" has returned.
C1_Witness ==
    /\ rcall.outcome = "returned"
    /\ rcall.args = [command_executor |-> None, session_id |-> None]
    /\ rcall.before.driver = 0
    /\ remote.command_executor = "http://127.0.0.1:4444"
    /\ remote.session_id = "abc123"
    /\ Cardinality(Indices(rcall.trace, "close")) = 1

\* what the stored attributes must be after a call with these arguments
Expected(arg, stored) == IF IsNone(arg) THEN stored ELSE Get(arg)

\* C2: a supplied argument overwrites the stored attribute, an omitted one
\* leaves it; the handle is built against the resulting command_executor
\* (the first thing the call does), and after a successful call the handle's
\* session_id is the resulting session_id.
C2_ArgumentsStoredOrReused ==
    rcall.outcome # "none" =>
        LET ce  == Expected(rcall.args.command_executor, rcall.before.command_executor)
            sid == Expected(rcall.args.session_id, rcall.before.session_id)
        IN  /\ remote.command_executor = ce
            /\ remote.session_id = sid
            /\ rcall.trace # <<>> =>
                  /\ rcall.trace[1].cmd = "new_session"
                  /\ rcall.trace[1].address = ce
                  /\ handles[rcall.trace[1].handle].command_executor = ce
            /\ rcall.outcome = "returned" =>
                  /\ handles[remote.driver].command_executor = ce
                  /\ handles[remote.driver].session_id = sid

\* C2 witness: attached to "abc123", then create_driver(session_id="xyz789")
\* returned with the address that was stored before.
C2_Witness ==
    /\ rcall.outcome = "returned"
    /\ rcall.before.driver # 0
    /\ rcall.before.handles[rcall.before.driver].session_id = "abc123"
    /\ rcall.args = [command_executor |-> None, session_id |-> Some("xyz789")]
    /\ handles[remote.driver].session_id = "xyz789"
    /\ handles[remote.driver].command_executor = rcall.before.command_executor

\* C3: when the switch-to-window statement fails, create_driver raises and
\* neither timeout command is sent; a call whose target has no open window
\* on the server never returns normally.
C3_SwitchFailureRaises ==
    /\ rcall.failed_step = "switch_to_window" =>
          /\ rcall.outcome = "raised"
          /\ Indices(rcall.trace, "implicitly_wait") = {}
          /\ Indices(rcall.trace, "set_page_load_timeout") = {}
          /\ Indices(rcall.trace, "switch_to_window") = {}
    /\ (rcall.outcome # "none" /\ ~TargetOpen(remote.command_executor, remote.session_id))
          => rcall.outcome = "raised"

\* C3 witness: the target has no open window on the server the call went to,
\* and the call ended at the switch-to-window statement.
C3_Witness ==
    /\ rcall.failed_step = "switch_to_window"
    /\ ~TargetOpen(remote.command_executor, remote.session_id)
    /\ Indices(rcall.trace, "rebind") # {}

\* C4 as claimed: after a failure of the handle construction or of the
\* close-window statement no throwaway session is live and the stored
\* handle is bound neither to the target nor to a session the call created.
C4_Original ==
    rcall.failed_step \in {"Remote", "close_window"} =>
        /\ \A a \in Addresses : \A s \in Throwaways(a) : servers[a][s].windows = 0
        /\ remote.driver # 0 =>
              /\ handles[remote.driver].session_id # remote.session_id
              /\ \A i \in Indices(rcall.trace, "new_session") :
                    handles[remote.driver].session_id # rcall.trace[i].session

\* C4 amended: a failure of the handle construction creates no session and
\* leaves the stored handle as it was before the call; a failure of the
\* close-window statement leaves the new handle stored, bound to the call's
\* throwaway session, which is still open on the server; in both cases the
\* call has not set any handle's session_id to the target.
C4_FailureBeforeRebind ==
    /\ rcall.failed_step = "Remote" =>
          /\ rcall.outcome = "raised"
          /\ rcall.trace = <<>>
          /\ handles = rcall.before.handles
          /\ remote.driver = rcall.before.driver
    /\ rcall.failed_step = "close_window" =>
          /\ rcall.outcome = "raised"
          /\ Len(rcall.trace) = 1
          /\ rcall.trace[1].cmd = "new_session"
          /\ remote.driver = rcall.trace[1].handle
          /\ remote.driver = Len(rcall.before.handles) + 1
          /\ handles[remote.driver].session_id = rcall.trace[1].session
          /\ handles[remote.driver].session_id # remote.session_id
          /\ servers[rcall.trace[1].address][rcall.trace[1].session].windows = 1
          /\ servers[rcall.trace[1].address][rcall.trace[1].session].closes = 0

\* C4 witness: a re-attachment whose close-window statement failed.
C4_Witness ==
    /\ rcall.failed_step = "close_window"
    /\ rcall.before.driver # 0
    /\ remote.driver # rcall.before.driver
    /\ \E a \in Addresses : \E s \in Throwaways(a) : servers[a][s].windows = 1

\* C6: after a successful remote create_driver the target session holds the
\* controller's implicit wait and page-load timeout; each is sent once per
\* call, to the target, after the rebind; no throwaway session ever
\* receives either setting.
C6_TimeoutsOnTarget ==
    /\ rcall.outcome = "returned" =>
        LET t  == rcall.trace
            iw == Indices(t, "implicitly_wait")
            pl == Indices(t, "set_page_load_timeout")
            tg == servers[remote.command_executor][remote.session_id]
        IN  /\ tg.implicit_wait = remote.base_implicitly_wait
            /\ tg.page_load_timeout = remote.base_page_load_timeout
            /\ Cardinality(iw) = 1
            /\ Cardinality(pl) = 1
            /\ \A i \in iw \cup pl :
                  /\ t[i].session = remote.session_id
                  /\ t[i].address = remote.command_executor
                  /\ \E r \in Indices(t, "rebind") : r < i
            /\ \A i \in iw : t[i].value = remote.base_implicitly_wait
            /\ \A i \in pl : t[i].value = remote.base_page_load_timeout
    /\ \A a \in Addresses : \A s \in Throwaways(a) :
          /\ servers[a][s].implicit_wait = 0
          /\ servers[a][s].page_load_timeout = 0

\* C6 witness: a re-attachment to another session returned and that session
\* holds the controller's two (different) timeout values.
C6_Witness ==
    /\ rcall.outcome = "returned"
    /\ rcall.before.driver # 0
    /\ rcall.before.session_id # remote.session_id
    /\ remote.base_implicitly_wait # remote.base_page_load_timeout
    /\ servers[remote.command_executor][remote.session_id].page_load_timeout
          = remote.base_page_load_timeout

\* C7: no close-window command ever reaches a session that exists
\* independently of the controller (the sessions it attaches to): every such
\* session keeps its window, whatever calls were made, and the handle that
\* was stored before a re-attachment stays bound to its session.
C7_TargetsNeverClosed ==
    /\ \A a \in Addresses : \A s \in PreExisting(a) :
          /\ servers[a][s].closes = 0
          /\ servers[a][s].windows = InitialServers[a][s].windows
    /\ \A i \in Indices(rcall.trace, "close") :
          /\ rcall.trace[i].session \notin Targets
          /\ rcall.trace[i].session # remote.session_id
    /\ rcall.before.driver # 0 =>
          handles[rcall.before.driver] = rcall.before.handles[rcall.before.driver]

\* C7 witness: attached to one target, then re-attached to another: the
\* first target is still open and its old handle is still bound to it.
C7_Witness ==
    /\ rcall.outcome = "returned"
    /\ rcall.before.driver # 0
    /\ remote.driver # rcall.before.driver
    /\ LET old == handles[rcall.before.driver]
       IN  /\ old.session_id \in Targets
           /\ old.session_id # remote.session_id
           /\ TargetOpen(old.command_executor, old.session_id)


(***************************************************************************)
(* FirefoxWebDriver: the local controller.                                 *)
(***************************************************************************)
\* the six configuration fields renew_bas_and_bom reads
Config(dir, port, headless, mute, ua, proxy) ==
    [webdriver_dir |-> dir, debugging_port |-> port, headless_mode |-> headless,
     mute_audio |-> mute, user_agent |-> ua, proxy |-> proxy]

Fields(ctl) ==
    Config(ctl.webdriver_dir, ctl.debugging_port, ctl.headless_mode,
           ctl.mute_audio, ctl.user_agent, ctl.proxy)

\* the defaults of FirefoxStartArgs() and FirefoxOptionsManager(),
\* lines 101-104 and 34-36
DefaultConfig == Config(None, None, FALSE, FALSE, None, None)

\* the configurations a caller sets the fields to
Configs ==
    { DefaultConfig,
      Config(Some(<<"/path/to/profile">>), Some(9222), TRUE, TRUE,
             Some(<<<<"My">>, <<"User">>, <<"Agent">>>>), Some(<<"127.0.0.1:8080">>)) }

\* the constructor arguments other than the assemblers: the defaults of
\* lines 169-170 with one window rectangle, and values the caller chose
Constructions ==
    { [webdriver_path |-> "/path/to/geckodriver", implicitly_wait |-> 5,
       page_load_timeout |-> 5,
       window_rect |-> [x |-> 0, y |-> 0, width |-> 1920, height |-> 1080]],
      [webdriver_path |-> "/opt/geckodriver", implicitly_wait |-> 9,
       page_load_timeout |-> 7,
       window_rect |-> [x |-> 10, y |-> 20, width |-> 800, height |-> 600]] }

\* the local world a call runs on
LocalWorld(ctl, ms, ds) == [ctl |-> ctl, managers |-> ms, drivers |-> ds, trace |-> <<>>]

LocalEvent(cmd, h, v) == [cmd |-> cmd, handle |-> h, value |-> v]

\* line 212: self.webdriver_service = Service(executable_path=self.webdriver_path)
BuildService(W) ==
    LET service == [executable_path |-> W.ctl.webdriver_path]
    IN  [W EXCEPT !.ctl.webdriver_service = Some(service),
                  !.trace = Append(@, LocalEvent("Service", 0, service))]

\* line 213: self.webdriver_options = self.webdriver_options_manager.options
\* (a reference to the manager's own options object)
TakeOptions(W) ==
    [W EXCEPT !.ctl.webdriver_options = Some(W.ctl.webdriver_options_manager),
              !.trace = Append(@, LocalEvent("options", 0,
                                             W.ctl.webdriver_options_manager))]

\* a variant of line 215 that quits the handle stored so far before it
\* constructs the new one
ConstructFirefox_QuitsPrior(W) ==
    LET h   == Len(W.drivers) + 1
        old == W.ctl.driver
        d == [options |-> W.managers[Get(W.ctl.webdriver_options)].options,
              service |-> Get(W.ctl.webdriver_service),
              position |-> None, size |-> None,
              implicit_wait |-> None, page_load_timeout |-> None,
              closed |-> FALSE]
        quit == IF old = 0 THEN W
                ELSE [W EXCEPT !.drivers[old].closed = TRUE,
                               !.trace = Append(@, LocalEvent("quit", old, 0))]
    IN  [quit EXCEPT !.drivers = Append(@, d),
                     !.ctl.driver = h,
                     !.trace = Append(@, LocalEvent("Firefox", h,
                                   [options |-> d.options, service |-> d.service]))]

\* line 215: self.driver = webdriver.Firefox(options=..., service=...): the
\* browser is started with the options as they are at this moment
ConstructFirefox(W) ==
    LET h == Len(W.drivers) + 1
        d == [options |-> W.managers[Get(W.ctl.webdriver_options)].options,
              service |-> Get(W.ctl.webdriver_service),
              position |-> None, size |-> None,
              implicit_wait |-> None, page_load_timeout |-> None,
              closed |-> FALSE]
    IN  [W EXCEPT !.drivers = Append(@, d),
                  !.ctl.driver = h,
                  !.trace = Append(@, LocalEvent("Firefox", h,
                                [options |-> d.options, service |-> d.service]))]

\* line 217
SetWindowPosition(W) ==
    LET v == <<W.ctl.window_rect.x, W.ctl.window_rect.y>>
    IN  [W EXCEPT !.drivers[W.ctl.driver].position = Some(v),
                  !.trace = Append(@, LocalEvent("set_window_position", W.ctl.driver, v))]

\* line 218
SetWindowSize(W) ==
    LET v == <<W.ctl.window_rect.width, W.ctl.window_rect.height>>
    IN  [W EXCEPT !.drivers[W.ctl.driver].size = Some(v),
                  !.trace = Append(@, LocalEvent("set_window_size", W.ctl.driver, v))]

\* line 220
LocalImplicitlyWait(W) ==
    LET v == W.ctl.base_implicitly_wait
    IN  [W EXCEPT !.drivers[W.ctl.driver].implicit_wait = Some(v),
                  !.trace = Append(@, LocalEvent("implicitly_wait", W.ctl.driver, v))]

\* line 221
LocalSetPageLoadTimeout(W) ==
    LET v == W.ctl.base_page_load_timeout
    IN  [W EXCEPT !.drivers[W.ctl.driver].page_load_timeout = Some(v),
                  !.trace = Append(@, LocalEvent("set_page_load_timeout", W.ctl.driver, v))]

\* a variant with lines 217 and 218 exchanged: size, then position
LocalSteps_SizeFirst ==
    << "Service", "options", "Firefox", "set_window_size", "set_window_position",
       "implicitly_wait", "set_page_load_timeout" >>

\* the statements of FirefoxWebDriver.create_driver, in the order of
\* lines 212-221
LocalSteps ==
    << "Service", "options", "Firefox", "set_window_position", "set_window_size",
       "implicitly_wait", "set_page_load_timeout" >>

LocalApplyStep(step, W) ==
    CASE step = "Service"               -> BuildService(W)
      [] step = "options"               -> TakeOptions(W)
      [] step = "Firefox"               -> ConstructFirefox(W)
      [] step = "set_window_position"   -> SetWindowPosition(W)
      [] step = "set_window_size"       -> SetWindowSize(W)
      [] step = "implicitly_wait"       -> LocalImplicitlyWait(W)
      [] step = "set_page_load_timeout" -> LocalSetPageLoadTimeout(W)

\* the calls into selenium that can fail: starting the browser and the four
\* commands on the handle
LocalExternalSteps == {"Firefox", "set_window_position", "set_window_size",
                       "implicitly_wait", "set_page_load_timeout"}

\* no statement of create_driver is guarded: the first one that raises ends
\* the call
RECURSIVE LocalRunFrom(_, _, _, _)
LocalRunFrom(steps, i, W, failAt) ==
    IF i > Len(steps)
    THEN [world |-> W, outcome |-> "returned", failed_step |-> "none"]
    ELSE IF steps[i] = failAt
         THEN [world |-> W, outcome |-> "raised", failed_step |-> steps[i]]
         ELSE LocalRunFrom(steps, i + 1, LocalApplyStep(steps[i], W), failAt)

\* FirefoxWebDriver.create_driver()
local_create_driver(W, failAt) == LocalRunFrom(LocalSteps, 1, W, failAt)

\* the number a new object gets: the least one no live object has
NewObject(ms) == CHOOSE n \in 0..Cardinality(DOMAIN ms) : n \notin DOMAIN ms

\* the manager objects something still refers to: the default argument of
\* line 168 (object 0, held by the function), the controller's manager and
\* the manager whose options self.webdriver_options refers to
Referenced(ctl) ==
    {0, ctl.webdriver_options_manager}
    \cup (IF IsNone(ctl.webdriver_options) THEN {} ELSE {Get(ctl.webdriver_options)})

\* a variant of lines 231-234 that rebuilds only the start arguments
renew_bas_and_bom_ArgsOnly(W) ==
    [W EXCEPT !.ctl.webdriver_start_args =
                  FirefoxStartArgs(W.ctl.webdriver_dir, W.ctl.debugging_port,
                                   W.ctl.headless_mode, W.ctl.mute_audio)]

\* a variant of line 234 that keeps the options object of the manager it
\* replaces and applies the fields to it again
renew_bas_and_bom_SameOptions(W) ==
    LET n   == NewObject(W.managers)
        old == W.managers[W.ctl.webdriver_options_manager]
        new == FirefoxOptionsManager(W.ctl.debugging_port, W.ctl.user_agent, W.ctl.proxy)
        ctl == [W.ctl EXCEPT
                   !.webdriver_start_args =
                       FirefoxStartArgs(W.ctl.webdriver_dir, W.ctl.debugging_port,
                                        W.ctl.headless_mode, W.ctl.mute_audio),
                   !.webdriver_options_manager = n]
        all == [m \in DOMAIN W.managers \cup {n} |->
                   IF m = n
                   THEN [new EXCEPT !.options.arguments =
                                        old.options.arguments \o new.options.arguments]
                   ELSE W.managers[m]]
    IN  [W EXCEPT !.ctl = ctl,
                  !.managers = [m \in Referenced(ctl) |-> all[m]]]

\* FirefoxWebDriver.renew_bas_and_bom(), lines 231-234: both assemblers are
\* replaced by new objects built from the controller's fields
renew_bas_and_bom(W) ==
    LET n   == NewObject(W.managers)
        ctl == [W.ctl EXCEPT
                   !.webdriver_start_args =
                       FirefoxStartArgs(W.ctl.webdriver_dir, W.ctl.debugging_port,
                                        W.ctl.headless_mode, W.ctl.mute_audio),
                   !.webdriver_options_manager = n]
        all == [m \in DOMAIN W.managers \cup {n} |->
                   IF m = n
                   THEN FirefoxOptionsManager(W.ctl.debugging_port, W.ctl.user_agent,
                                              W.ctl.proxy)
                   ELSE W.managers[m]]
    IN  [W EXCEPT !.ctl = ctl,
                  !.managers = [m \in Referenced(ctl) |-> all[m]]]

(***************************************************************************)
(* Initial state: FirefoxWebDriver(webdriver_path, ...) with the default   *)
(* assemblers of lines 167-168.                                            *)
(***************************************************************************)
NoLocalCall ==
    [op |-> "__init__", repeated |-> FALSE, outcome |-> "returned",
     failed_step |-> "none", trace |-> <<>>,
     before |-> [driver |-> 0, drivers |-> <<>>]]

LocalConstructed(c) ==
    /\    local = [webdriver_path            |-> c.webdriver_path,
                   webdriver_start_args      |-> FirefoxStartArgs(None, None, FALSE, FALSE),
                   webdriver_options_manager |-> 0,
                   webdriver_dir             |-> None,
                   debugging_port            |-> None,
                   headless_mode             |-> FALSE,
                   mute_audio                |-> FALSE,
                   user_agent                |-> None,
                   proxy                     |-> None,
                   window_rect               |-> c.window_rect,
                   base_implicitly_wait      |-> c.implicitly_wait,
                   base_page_load_timeout    |-> c.page_load_timeout,
                   webdriver_service         |-> None,
                   webdriver_options         |-> None,
                   driver                    |-> 0]
    /\ managers = [m \in {0} |-> FirefoxOptionsManager(None, None, None)]
    /\ drivers = <<>>
    /\ lcall = NoLocalCall
    /\ synced = DefaultConfig

LocalInit == \E c \in Constructions : LocalConstructed(c)

\* the record of a call: repeated says that the operation before it was the
\* same one
Called(op, r, before) ==
    [op |-> op, repeated |-> (lcall.op = op), outcome |-> r.outcome,
     failed_step |-> r.failed_step, trace |-> r.world.trace, before |-> before]

Before == [driver |-> local.driver, drivers |-> drivers]

\* the caller invokes create_driver(); the environment may fail one of the
\* calls into selenium
LocalCreateDriver(failAt) ==
    /\ Len(drivers) < MaxLaunches
    /\ LET r == local_create_driver(LocalWorld(local, managers, drivers), failAt)
       IN  /\ local' = r.world.ctl
           /\ managers' = r.world.managers
           /\ drivers' = r.world.drivers
           /\ lcall' = Called("create_driver", r, Before)
    /\ UNCHANGED synced
    /\ UNCHANGED rvars
    /\ UNCHANGED fvars
    /\ UNCHANGED cvars

\* the caller invokes renew_bas_and_bom()
RenewAssemblers ==
    /\ LET W == renew_bas_and_bom(LocalWorld(local, managers, drivers))
       IN  /\ local' = W.ctl
           /\ managers' = W.managers
           /\ lcall' = [NoLocalCall EXCEPT !.op = "renew_bas_and_bom",
                                           !.repeated = (lcall.op = "renew_bas_and_bom")]
    /\ synced' = Fields(local)
    /\ UNCHANGED drivers
    /\ UNCHANGED rvars
    /\ UNCHANGED fvars
    /\ UNCHANGED cvars

\* the caller assigns new values to the configuration fields
MutateFields(c) ==
    /\ c # Fields(local)
    /\ local' = [local EXCEPT !.webdriver_dir = c.webdriver_dir,
                              !.debugging_port = c.debugging_port,
                              !.headless_mode = c.headless_mode,
                              !.mute_audio = c.mute_audio,
                              !.user_agent = c.user_agent,
                              !.proxy = c.proxy]
    /\ lcall' = [NoLocalCall EXCEPT !.op = "mutate"]
    /\ UNCHANGED <<managers, drivers, synced>>
    /\ UNCHANGED rvars
    /\ UNCHANGED fvars
    /\ UNCHANGED cvars

LocalNext ==
    \/ \E f \in LocalExternalSteps \cup {"none"} : LocalCreateDriver(f)
    \/ RenewAssemblers
    \/ \E c \in Configs : MutateFields(c)


(***************************************************************************)
(* Several controllers in one program.  The default value of a parameter   *)
(* is evaluated once, when the def statement runs, so every construction   *)
(* that omits webdriver_options_manager receives the same object: number 0 *)
(* is the FirefoxOptionsManager() of line 168, number 1 that of line 258.  *)
(***************************************************************************)
Classes == {"FirefoxWebDriver", "FirefoxRemoteWebDriver"}

\* the object the parameter default of line 168, or of line 258, evaluates to
DefaultManager(class) == IF class = "FirefoxWebDriver" THEN 0 ELSE 1

NoFleetCall ==
    [op |-> "none", controller |-> 0, before |-> << >>, repeated |-> FALSE,
     hides |-> 0]

\* the module has been imported: the two default objects exist
FleetInit ==
    /\ controllers = <<>>
    /\ assemblers = [m \in {DefaultManager(c) : c \in Classes} |->
                        FirefoxOptionsManager(None, None, None)]
    /\ hcall = NoFleetCall

\* class(...) with webdriver_options_manager omitted, or given as a
\* FirefoxOptionsManager() the caller has just built: the controller keeps
\* a reference to the object it received (line 279; FirefoxWebDriver hands
\* it to BrowserWebDriver.__init__ in lines 187-202, which is taken to keep
\* it in the same way)
ConstructController(class, explicit) ==
    /\ Len(controllers) < MaxControllers
    /\ LET given == IF explicit THEN NewObject(assemblers) ELSE DefaultManager(class)
       IN  /\ assemblers' = [m \in DOMAIN assemblers \cup {given} |->
                                IF m \in DOMAIN assemblers THEN assemblers[m]
                                ELSE FirefoxOptionsManager(None, None, None)]
           /\ controllers' = Append(controllers,
                                    [class |-> class, defaulted |-> ~explicit,
                                     webdriver_options_manager |-> given])
    /\ hcall' = [NoFleetCall EXCEPT !.op = "__init__",
                                    !.controller = Len(controllers) + 1,
                                    !.hides = hcall.hides]
    /\ UNCHANGED rvars
    /\ UNCHANGED lvars
    /\ UNCHANGED cvars

\* controller.webdriver_options_manager.hide_automation(), lines 60-63
HideAutomation(i) ==
    /\ i \in DOMAIN controllers
    /\ hcall.hides < MaxHides
    /\ LET m == controllers[i].webdriver_options_manager
       IN  /\ assemblers' = [assemblers EXCEPT ![m] = hide_automation(@)]
           /\ hcall' = [op |-> "hide_automation", controller |-> i,
                        before |-> assemblers,
                        repeated |-> /\ hcall.op = "hide_automation"
                                     /\ controllers[hcall.controller].webdriver_options_manager = m,
                        hides |-> hcall.hides + 1]
    /\ UNCHANGED controllers
    /\ UNCHANGED rvars
    /\ UNCHANGED lvars
    /\ UNCHANGED cvars

FleetNext ==
    \/ \E class \in Classes, explicit \in BOOLEAN : ConstructController(class, explicit)
    \/ \E i \in 1..MaxControllers : HideAutomation(i)

\* the options create_driver of the i-th controller passes to the handle
\* it constructs (lines 213-215, line 303)
OptionsSeen(i, heap) == heap[controllers[i].webdriver_options_manager].options


(***************************************************************************)
(* Two callers on one remote controller.  create_driver keeps nothing in   *)
(* local variables: every statement reads self.driver, self.session_id and *)
(* self.command_executor anew, so a statement of one call acts on whatever *)
(* the other call has stored in between.  A frame is one call: the         *)
(* statement of RemoteSteps it is about to run, its arguments, the         *)
(* external call the environment fails for it (if any) and how it ended.   *)
(***************************************************************************)
Callers == {"first", "second"}

NotCalled ==
    [pc |-> 0, args |-> [command_executor |-> None, session_id |-> None],
     failAt |-> "none", outcome |-> "none", failed_step |-> "none"]

InProgress(c) == frames[c].pc # 0 /\ frames[c].outcome = "none"

\* a caller may run when the callers are not serialized, or when no other
\* call is between its first and its last statement
MayRun(c) == serialized => \A d \in Callers \ {c} : ~InProgress(d)

\* no caller has entered create_driver; the callers serialize their calls
\* or do not
FramesInit ==
    /\ frames = [c \in Callers |-> NotCalled]
    /\ serialized \in BOOLEAN

RaceInit ==
    /\ \E a \in Addresses, s \in Targets : RemoteConstructed(a, s, <<5, 5>>)
    /\ FramesInit

\* a caller enters create_driver(command_executor, session_id) and runs
\* lines 296-300
EnterCreateDriver(c, command_executor, session_id, failAt) ==
    /\ frames[c].pc = 0
    /\ MayRun(c)
    /\ LET W == StoreArguments(World(remote, handles, servers),
                               command_executor, session_id)
       IN  /\ remote' = W.ctl
           /\ handles' = W.handles
           /\ servers' = W.servers
    /\ frames' = [frames EXCEPT ![c] =
                     [NotCalled EXCEPT !.pc = 1,
                                       !.args = [command_executor |-> command_executor,
                                                 session_id |-> session_id],
                                       !.failAt = failAt]]
    /\ UNCHANGED <<rcall, ncalls, serialized>>
    /\ UNCHANGED lvars
    /\ UNCHANGED fvars

\* a caller runs the next statement of lines 302-311: it raises, which ends
\* the call, or takes effect
RunStatement(c) ==
    /\ InProgress(c)
    /\ MayRun(c)
    /\ LET W    == World(remote, handles, servers)
           step == RemoteSteps[frames[c].pc]
           r    == RunFrom(<<step>>, 1, W, frames[c].failAt)
       IN  /\ remote' = r.world.ctl
           /\ handles' = r.world.handles
           /\ servers' = r.world.servers
           /\ frames' = [frames EXCEPT ![c] =
                            IF r.outcome = "raised"
                            THEN [@ EXCEPT !.outcome = "raised", !.failed_step = step]
                            ELSE IF frames[c].pc = Len(RemoteSteps)
                                 THEN [@ EXCEPT !.outcome = "returned"]
                                 ELSE [@ EXCEPT !.pc = @ + 1]]
    /\ UNCHANGED <<rcall, ncalls, serialized>>
    /\ UNCHANGED lvars
    /\ UNCHANGED fvars

RaceNext ==
    \/ \E c \in Callers, ce \in Opt(Addresses), sid \in Opt(Targets),
          f \in ExternalSteps \cup {"none"} : EnterCreateDriver(c, ce, sid, f)
    \/ \E c \in Callers : RunStatement(c)


(***************************************************************************)
(* Specifications.  The two controllers are separate objects that share no *)
(* state: RemoteSpec runs the remote controller beside a local controller  *)
(* that is only constructed, LocalSpec the converse; Spec runs both.  The  *)
(* properties of one controller are stated under its own specification.    *)
(***************************************************************************)
\* the usage example of lines 250-251
RemoteIdle == RemoteConstructed("http://127.0.0.1:4444", "abc123", <<5, 5>>)

\* the usage example of lines 159-160, with the defaults of lines 169-170
LocalIdle ==
    LocalConstructed([webdriver_path |-> "/path/to/geckodriver", implicitly_wait |-> 5,
                      page_load_timeout |-> 5,
                      window_rect |-> [x |-> 0, y |-> 0, width |-> 1920, height |-> 1080]])

FleetIdle == FleetInit

RaceIdle == frames = [c \in Callers |-> NotCalled] /\ serialized = TRUE

RemoteOnlyInit == RemoteInit /\ LocalIdle /\ FleetIdle /\ RaceIdle

RemoteSpec == RemoteOnlyInit /\ [][RemoteNext]_vars

LocalOnlyInit == LocalInit /\ RemoteIdle /\ FleetIdle /\ RaceIdle

LocalSpec == LocalOnlyInit /\ [][LocalNext]_vars

FleetOnlyInit == FleetInit /\ RemoteIdle /\ LocalIdle /\ RaceIdle

RaceOnlyInit == RaceInit /\ LocalIdle /\ FleetIdle

RaceSpec == RaceOnlyInit /\ [][RaceNext]_vars

FleetSpec == FleetOnlyInit /\ [][FleetNext]_vars

Init == RemoteInit /\ LocalInit /\ FleetInit /\ FramesInit

Next == RemoteNext \/ LocalNext \/ FleetNext \/ RaceNext

Spec == Init /\ [][Next]_vars

(***************************************************************************)
(* The start-argument assembler on every launch configuration: the fields  *)
(* of a local controller are set to any combination of present and absent  *)
(* values, and renew_bas_and_bom assembles the start command from them.    *)
(***************************************************************************)
ProfileDirs == {<<"/path/to/profile">>, <<"C:/Users/me/ff profile">>}

DebuggingPorts == {80, 9222, 65535}

LaunchConfigs ==
    { Config(dir, port, headless, mute, None, None) :
        dir \in Opt(ProfileDirs), port \in Opt(DebuggingPorts),
        headless \in BOOLEAN, mute \in BOOLEAN }

ArgsInit ==
    /\ RemoteIdle
    /\ FleetIdle
    /\ RaceIdle
    /\ \E c \in LaunchConfigs :
          /\ local = [webdriver_path            |-> "/path/to/geckodriver",
                      webdriver_start_args      |-> FirefoxStartArgs(None, None, FALSE, FALSE),
                      webdriver_options_manager |-> 0,
                      webdriver_dir             |-> c.webdriver_dir,
                      debugging_port            |-> c.debugging_port,
                      headless_mode             |-> c.headless_mode,
                      mute_audio                |-> c.mute_audio,
                      user_agent                |-> c.user_agent,
                      proxy                     |-> c.proxy,
                      window_rect               |-> [x |-> 0, y |-> 0, width |-> 1920,
                                                     height |-> 1080],
                      base_implicitly_wait      |-> 5,
                      base_page_load_timeout    |-> 5,
                      webdriver_service         |-> None,
                      webdriver_options         |-> None,
                      driver                    |-> 0]
          /\ lcall = [NoLocalCall EXCEPT !.op = "mutate"]
    /\ managers = [m \in {0} |-> FirefoxOptionsManager(None, None, None)]
    /\ drivers = <<>>
    /\ synced = DefaultConfig

ArgsSpec == ArgsInit /\ [][RenewAssemblers]_vars


(***************************************************************************)
(* Properties of the local controller and of the assemblers.               *)
(***************************************************************************)
Cmds(t) == [i \in 1..Len(t) |-> t[i].cmd]

\* C5: a successful local create_driver makes exactly these calls in this
\* order: Service(webdriver_path), take the options of the options manager,
\* webdriver.Firefox(options, service), set_window_position(x, y),
\* set_window_size(width, height), implicitly_wait, set_page_load_timeout;
\* the four handle calls go once each to the handle this call constructed,
\* with the stored window rectangle and timeouts.
C5_LocalCallOrder ==
    (lcall.op = "create_driver" /\ lcall.outcome = "returned") =>
        LET t == lcall.trace
            h == Len(lcall.before.drivers) + 1
            r == local.window_rect
        IN  /\ Cmds(t) = << "Service", "options", "Firefox", "set_window_position",
                            "set_window_size", "implicitly_wait",
                            "set_page_load_timeout" >>
            /\ local.driver = h
            /\ Len(drivers) = h
            /\ t[1].value = [executable_path |-> local.webdriver_path]
            /\ t[2].value = local.webdriver_options_manager
            /\ t[3].handle = h
            /\ t[3].value.service = [executable_path |-> local.webdriver_path]
            /\ t[3].value.options = managers[local.webdriver_options_manager].options
            /\ \A i \in 4..7 : t[i].handle = h
            /\ t[4].value = <<r.x, r.y>>
            /\ t[5].value = <<r.width, r.height>>
            /\ t[6].value = local.base_implicitly_wait
            /\ t[7].value = local.base_page_load_timeout
            /\ drivers[h].position = Some(<<r.x, r.y>>)
            /\ drivers[h].size = Some(<<r.width, r.height>>)
            /\ drivers[h].implicit_wait = Some(local.base_implicitly_wait)
            /\ drivers[h].page_load_timeout = Some(local.base_page_load_timeout)

\* C5 witness: a second create_driver returned on a controller built with
\* its own window rectangle and timeouts.
C5_Witness ==
    /\ lcall.op = "create_driver"
    /\ lcall.outcome = "returned"
    /\ local.driver = 2
    /\ local.window_rect = [x |-> 10, y |-> 20, width |-> 800, height |-> 600]
    /\ drivers[2].size = Some(<<800, 600>>)
    /\ drivers[2].page_load_timeout = Some(7)

\* the text of an options object
OptionsText(o) ==
    [debugger_address |-> IF IsNone(o.debugger_address) THEN ""
                          ELSE Str(Get(o.debugger_address)),
     arguments |-> [i \in 1..Len(o.arguments) |-> Str(o.arguments[i])]]

\* the configuration with every field set, and what each of the two
\* configurations of Configs assembles to, written out
FullConfig ==
    Config(Some(<<"/path/to/profile">>), Some(9222), TRUE, TRUE,
           Some(<<<<"My">>, <<"User">>, <<"Agent">>>>), Some(<<"127.0.0.1:8080">>))

WrittenOptions(c) ==
    IF c = FullConfig
    THEN [debugger_address |-> "127.0.0.1:9222",
          arguments |-> <<"user-agent=My User Agent", "--proxy-server=127.0.0.1:8080">>]
    ELSE [debugger_address |-> "", arguments |-> <<>>]

WrittenCommand(c) ==
    IF c = FullConfig
    THEN "firefox.exe --remote-debugging-port 9222 --profile \"/path/to/profile\" --headless --mute-audio"
    ELSE "firefox.exe"

\* what the controller's two assemblers currently yield
Assembled ==
    [start_command |-> Str(local.webdriver_start_args.start_command),
     options |-> OptionsText(managers[local.webdriver_options_manager].options)]

\* C8: the assemblers always yield what the field values at the last
\* renew_bas_and_bom (or at construction) assemble to, whatever the fields
\* are now; right after renew_bas_and_bom those are the current values; and
\* the options create_driver passes to webdriver.Firefox are the ones of
\* the options manager, hence derived from the values at the last renewal.
C8_RenewSynchronizes ==
    /\ Assembled = [start_command |-> WrittenCommand(synced),
                    options |-> WrittenOptions(synced)]
    /\ lcall.op = "renew_bas_and_bom" => synced = Fields(local)
    /\ (lcall.op = "create_driver" /\ local.driver # lcall.before.driver) =>
          OptionsText(drivers[local.driver].options) = WrittenOptions(synced)

\* C8 witness: the fields were changed and renewed before the first
\* create_driver, which got the new options; they were changed back without
\* a renewal before the second, which still got those options.
C8_Witness ==
    /\ lcall.op = "create_driver"
    /\ lcall.outcome = "returned"
    /\ Len(drivers) = 2
    /\ OptionsText(drivers[1].options) = WrittenOptions(FullConfig)
    /\ OptionsText(drivers[2].options) = WrittenOptions(FullConfig)
    /\ Fields(local) = DefaultConfig
    /\ synced = FullConfig
    /\ WrittenOptions(Fields(local)) # OptionsText(drivers[2].options)

\* C9: a renew_bas_and_bom that directly follows a renew_bas_and_bom leaves
\* what the two assemblers yield (start command and option set) as it was.
C9_RenewIdempotent ==
    [][(lcall.op = "renew_bas_and_bom" /\ lcall'.op = "renew_bas_and_bom")
          => Assembled' = Assembled]_vars

\* C9 witness: renew_bas_and_bom ran twice in a row on a controller whose
\* fields are all set.
C9_Witness ==
    /\ lcall.op = "renew_bas_and_bom"
    /\ lcall.repeated
    /\ Fields(local) = FullConfig
    /\ Assembled.options.arguments # <<>>

\* the places of a piece in a sequence of pieces
Places(pieces, x) == {i \in DOMAIN pieces : pieces[i] = x}

\* C10: with profile directory, debugging port, headless and mute-audio all
\* present, the start command is the executable, the port fragment with the
\* port in it, the profile fragment with the directory in it, --headless and
\* --mute-audio, in this order, separated by single spaces.
C10_FragmentOrder ==
    (/\ lcall.op = "renew_bas_and_bom"
     /\ ~IsNone(local.webdriver_dir) /\ ~IsNone(local.debugging_port)
     /\ local.headless_mode /\ local.mute_audio) =>
        LET cmd  == local.webdriver_start_args.start_command
            dir  == Get(local.webdriver_dir)
            port == Get(local.debugging_port)
        IN  /\ Str(cmd) = "firefox.exe --remote-debugging-port " \o ToString(port)
                            \o " --profile \"" \o Str(dir) \o "\" --headless --mute-audio"
            /\ \E a, b, c, d \in DOMAIN cmd :
                  /\ 1 < a /\ a < b /\ b < c /\ c < d
                  /\ Places(cmd, "firefox.exe") = {1}
                  /\ Places(cmd, "--remote-debugging-port") = {a}
                  /\ Places(cmd, "--profile") = {b}
                  /\ Places(cmd, "--headless") = {c}
                  /\ Places(cmd, "--mute-audio") = {d}
                  /\ Places(cmd, ToString(port)) = {a + 2}
                  /\ SubSeq(cmd, b + 3, b + 2 + Len(dir)) = dir
                  /\ d = Len(cmd)

\* C10 witness: the start command assembled from a directory with a space in
\* it, port 65535 and both flags.
C10_Witness ==
    /\ lcall.op = "renew_bas_and_bom"
    /\ local.headless_mode /\ local.mute_audio
    /\ local.debugging_port = Some(65535)
    /\ local.webdriver_dir = Some(<<"C:/Users/me/ff profile">>)
    /\ Str(local.webdriver_start_args.start_command)
          = "firefox.exe --remote-debugging-port 65535 --profile \"C:/Users/me/ff profile\" --headless --mute-audio"

\* the start command written out field by field: every present field adds a
\* space and its fragment to the executable, an absent one adds nothing
ExpectedCommand(dir, port, headless, mute) ==
    "firefox.exe"
    \o (IF IsNone(port) THEN "" ELSE " --remote-debugging-port " \o ToString(Get(port)))
    \o (IF IsNone(dir) THEN "" ELSE " --profile \"" \o Str(Get(dir)) \o "\"")
    \o (IF headless THEN " --headless" ELSE "")
    \o (IF mute THEN " --mute-audio" ELSE "")

\* C11: for every combination of present and absent launch fields the start
\* command is the executable followed by the fragments of the present fields
\* only, joined by single spaces: no fragment of an absent or false field, no
\* two separators in a row, no leading or trailing separator, no template
\* placeholder left; with every field absent it is exactly the executable.
C11_NoResidue ==
    lcall.op = "renew_bas_and_bom" =>
        LET cmd == local.webdriver_start_args.start_command
        IN  /\ Str(cmd) = ExpectedCommand(local.webdriver_dir, local.debugging_port,
                                          local.headless_mode, local.mute_audio)
            /\ cmd[1] = "firefox.exe"
            /\ cmd[Len(cmd)] # " "
            /\ \A i \in 1..(Len(cmd) - 1) : ~(cmd[i] = " " /\ cmd[i + 1] = " ")
            /\ Places(cmd, "%d") = {} /\ Places(cmd, "%s") = {}
            /\ IsNone(local.debugging_port) => Places(cmd, "--remote-debugging-port") = {}
            /\ IsNone(local.webdriver_dir) => Places(cmd, "--profile") = {}
            /\ ~local.headless_mode => Places(cmd, "--headless") = {}
            /\ ~local.mute_audio => Places(cmd, "--mute-audio") = {}
            /\ (/\ IsNone(local.debugging_port) /\ IsNone(local.webdriver_dir)
                /\ ~local.headless_mode /\ ~local.mute_audio)
                   => cmd = <<"firefox.exe">>

\* C11 witness: only the debugging port and mute-audio are present.
C11_Witness ==
    /\ lcall.op = "renew_bas_and_bom"
    /\ IsNone(local.webdriver_dir) /\ ~local.headless_mode /\ local.mute_audio
    /\ local.debugging_port = Some(80)
    /\ Str(local.webdriver_start_args.start_command)
          = "firefox.exe --remote-debugging-port 80 --mute-audio"

(***************************************************************************)
(* Properties of the remote controller over several calls.                 *)
(* rcall.succeeded counts the create_driver calls that have returned.      *)
(***************************************************************************)
\* the commands a caller can issue through the stored handle
ControlOperations ==
    {"close_window", "session_id", "switch_to_window",
     "implicitly_wait", "set_page_load_timeout"}

\* every control operation issued through the controller raises
ControlFails ==
    \A op \in ControlOperations :
        Blocked(op, World(remote, handles, servers), "none")

\* C12 as stated: while no create_driver call has returned (a fresh
\* controller, or one on which every call so far has raised), the controller
\* holds no handle and every control operation through it fails.
C12_Original ==
    rcall.succeeded = 0 => (remote.driver = 0 /\ ControlFails)

\* C12: while no create_driver call has constructed a handle (a fresh
\* controller, or one on which every call so far has raised at the
\* construction of the handle), the controller holds no handle and every
\* control operation through it fails; a call that raises at a later
\* statement leaves the handle it constructed stored in the controller.
C12_NoHandleBeforeConstruction ==
    /\ Len(handles) = 0 => (remote.driver = 0 /\ ControlFails)
    /\ (rcall.outcome = "raised" /\ rcall.failed_step = "Remote") =>
          (remote.driver = rcall.before.driver /\ handles = rcall.before.handles)
    /\ (rcall.outcome = "raised" /\ rcall.failed_step # "Remote") =>
          /\ Len(handles) = Len(rcall.before.handles) + 1
          /\ remote.driver = Len(handles)

\* C12 witness: the only call so far raised at switch_to_window, and the
\* controller holds the handle of that call, which accepts commands.
C12_Witness ==
    /\ ncalls = 1
    /\ rcall.succeeded = 0
    /\ rcall.outcome = "raised"
    /\ rcall.failed_step = "switch_to_window"
    /\ remote.driver = 1
    /\ ~ControlFails

(***************************************************************************)
(* Properties of controllers constructed with default assemblers, and of   *)
(* hide_automation.  hcall describes the last operation: the controller it *)
(* was applied to, the FirefoxOptionsManager objects before it, and        *)
(* whether it repeats hide_automation on the same object.                  *)
(***************************************************************************)
Defaulted == {i \in DOMAIN controllers : controllers[i].defaulted}

\* C13: two controllers constructed without an explicit options manager hold
\* distinct FirefoxOptionsManager objects, and hide_automation applied
\* through one of them leaves the options every other such controller passes
\* to create_driver as they were.
C13_DefaultsNotShared ==
    /\ \A i, j \in Defaulted :
          i # j => controllers[i].webdriver_options_manager
                      # controllers[j].webdriver_options_manager
    /\ (hcall.op = "hide_automation" /\ hcall.controller \in Defaulted) =>
          \A j \in Defaulted \ {hcall.controller} :
              OptionsSeen(j, assemblers) = OptionsSeen(j, hcall.before)

\* the four arguments of lines 60-63, in their order
HidingArguments ==
    << <<"--disable-blink-features=AutomationControlled">>, <<"--no-first-run">>,
       <<"--no-service-autorun">>, <<"--password-store=basic">> >>

Arguments(i, heap) == OptionsSeen(i, heap).arguments

Elements(seq) == {seq[k] : k \in DOMAIN seq}

\* C14 as stated: a second hide_automation in a row on the same options
\* object leaves its argument list as the first left it, the four arguments
\* once each in the order of lines 60-63.
C14_Original ==
    (hcall.op = "hide_automation" /\ hcall.repeated) =>
        /\ Arguments(hcall.controller, assemblers)
              = Arguments(hcall.controller, hcall.before)
        /\ Arguments(hcall.controller, assemblers) = HidingArguments

\* C14: every hide_automation appends the four arguments, in the order of
\* lines 60-63, to the argument list as it was; a second application in a
\* row on the same options object leaves the set of distinct arguments as it
\* was and makes each of the four appear once more.
C14_HideAppends ==
    hcall.op = "hide_automation" =>
        LET now    == Arguments(hcall.controller, assemblers)
            before == Arguments(hcall.controller, hcall.before)
        IN  /\ now = before \o HidingArguments
            /\ hcall.repeated =>
                  /\ Elements(now) = Elements(before)
                  /\ \A a \in Elements(HidingArguments) :
                        Cardinality(Places(now, a)) = Cardinality(Places(before, a)) + 1

\* C14 witness: hide_automation has been applied twice in a row to the
\* options object of a controller, which now lists the four arguments twice.
C14_Witness ==
    /\ hcall.op = "hide_automation"
    /\ hcall.repeated
    /\ Arguments(hcall.controller, hcall.before) = HidingArguments
    /\ Arguments(hcall.controller, assemblers) = HidingArguments \o HidingArguments

(***************************************************************************)
(* The states of the local controller: Uncreated while self.driver is      *)
(* None, Active while it is a handle that has not been closed.             *)
(***************************************************************************)
Uncreated == local.driver = 0

Active == local.driver # 0 /\ ~drivers[local.driver].closed

\* what holds after every create_driver call that returned
CreatedAnew ==
    (lcall.op = "create_driver" /\ lcall.outcome = "returned") =>
        LET t     == lcall.trace
            prior == lcall.before.driver
        IN  /\ Active
            /\ local.driver = Len(lcall.before.drivers) + 1
            /\ local.driver # prior
            /\ t[1].cmd = "Service"
            /\ local.webdriver_service = Some(t[1].value)
            /\ drivers[local.driver].service = t[1].value
            /\ \A i \in DOMAIN t :
                  /\ t[i].cmd \notin {"close", "quit"}
                  /\ t[i].handle \in {0, local.driver}
            /\ prior # 0 =>
                  /\ drivers[prior] = lcall.before.drivers[prior]
                  /\ ~drivers[prior].closed

\* C15: a create_driver that returns leaves the local controller Active,
\* from Uncreated as well as from Active; in Active the service and the
\* handle it stores are the ones this call constructed, and the call sends
\* no close or quit (nor anything else) to the prior handle, which stays as
\* it was; no handle is ever closed by the controller, and no operation
\* takes the controller from holding a handle back to Uncreated.
C15_LocalStateMachine ==
    /\ [](CreatedAnew /\ \A d \in DOMAIN drivers : ~drivers[d].closed)
    /\ [][~Uncreated => ~Uncreated']_vars

\* C15 witness: create_driver returned on a controller that was Active: it
\* holds the second handle, and the first is still open.
C15_Witness ==
    /\ lcall.op = "create_driver"
    /\ lcall.outcome = "returned"
    /\ lcall.before.driver = 1
    /\ Active
    /\ local.driver = 2
    /\ ~drivers[1].closed

(***************************************************************************)
(* A remote create_driver that raises, on a controller that holds a        *)
(* handle.                                                                 *)
(***************************************************************************)
\* C16: nothing is rolled back when a remote create_driver raises on a
\* controller that holds a handle: the stored address and session
\* identifier are the supplied ones (the former ones where omitted); if the
\* construction of the handle raised, the stored handle is the one from
\* before the call, bound to the same address and session as before; if a
\* later statement raised, the stored handle is the one this call
\* constructed.
C16_NothingRolledBack ==
    (rcall.outcome = "raised" /\ rcall.before.driver # 0) =>
        LET prior == rcall.before.driver
        IN  /\ remote.command_executor
                  = Expected(rcall.args.command_executor, rcall.before.command_executor)
            /\ remote.session_id
                  = Expected(rcall.args.session_id, rcall.before.session_id)
            /\ rcall.failed_step = "Remote" =>
                  /\ remote.driver = prior
                  /\ handles[prior] = rcall.before.handles[prior]
                  /\ Len(handles) = Len(rcall.before.handles)
            /\ rcall.failed_step # "Remote" =>
                  /\ remote.driver # prior
                  /\ remote.driver = Len(rcall.before.handles) + 1
                  /\ rcall.trace[1].cmd = "new_session"
                  /\ rcall.trace[1].handle = remote.driver
                  /\ handles[prior] = rcall.before.handles[prior]

\* C16 witness: attached to "abc123" at "http://127.0.0.1:4444", then
\* create_driver("http://10.0.0.2:4444", "xyz789") raised at the construction
\* of the handle: the new address and identifier are stored beside the old
\* handle.
C16_Witness ==
    /\ rcall.outcome = "raised"
    /\ rcall.failed_step = "Remote"
    /\ rcall.succeeded = 1
    /\ rcall.before.command_executor = "http://127.0.0.1:4444"
    /\ rcall.before.session_id = "abc123"
    /\ rcall.args = [command_executor |-> Some("http://10.0.0.2:4444"),
                     session_id |-> Some("xyz789")]
    /\ remote.command_executor = "http://10.0.0.2:4444"
    /\ remote.session_id = "xyz789"
    /\ remote.driver = 1
    /\ handles[1].session_id = "abc123"
    /\ handles[1].command_executor = "http://127.0.0.1:4444"

\* C18: after every remote create_driver that returned, whatever calls came
\* before it and whichever arguments it was given, the stored handle is the
\* one this call constructed, the handle's session identifier is the stored
\* session_id, and the handle was constructed against the stored
\* command_executor.
C18_HandleAgreesWithStored ==
    rcall.outcome = "returned" =>
        LET t == rcall.trace
        IN  /\ t[1].cmd = "new_session"
            /\ remote.driver = t[1].handle
            /\ remote.driver = Len(rcall.before.handles) + 1
            /\ remote.driver # rcall.before.driver
            /\ t[1].address = remote.command_executor
            /\ handles[remote.driver].command_executor = remote.command_executor
            /\ handles[remote.driver].session_id = remote.session_id

\* C18 witness: two calls have returned, the second with a new session
\* identifier and the address omitted; the second handle is stored, bound to
\* "xyz789" at the stored address.
C18_Witness ==
    /\ rcall.succeeded = 2
    /\ rcall.outcome = "returned"
    /\ rcall.args.command_executor = None
    /\ rcall.args.session_id = Some("xyz789")
    /\ rcall.before.session_id = "abc123"
    /\ remote.driver = 2
    /\ handles[2].session_id = "xyz789"
    /\ handles[2].command_executor = remote.command_executor
    /\ handles[1].session_id = "abc123"

\* the throwaway sessions on all servers, and those that still have a window
AllThrowaways ==
    UNION {{<<a, s>> : s \in Throwaways(a)} : a \in Addresses}

LiveThrowaways ==
    {p \in AllThrowaways : servers[p[1]][p[2]].windows > 0}

\* C19: a remote create_driver that returns has created exactly one
\* throwaway session (no call creates more than one); after n calls that all
\* returned, exactly n throwaway sessions have been created, each has
\* received exactly one close-window command, and none of them is live.
C19_ThrowawaysClosed ==
    /\ Cardinality(Indices(rcall.trace, "new_session")) <= 1
    /\ rcall.outcome = "returned" =>
          Cardinality(Indices(rcall.trace, "new_session")) = 1
    /\ Cardinality(AllThrowaways) = Len(handles)
    /\ rcall.succeeded = ncalls =>
          /\ Cardinality(AllThrowaways) = ncalls
          /\ \A p \in AllThrowaways :
                /\ servers[p[1]][p[2]].closes = 1
                /\ servers[p[1]][p[2]].windows = 0
          /\ LiveThrowaways = {}

\* C19 witness: two calls, both returned; two throwaway sessions exist and
\* both are closed.
C19_Witness ==
    /\ ncalls = 2
    /\ rcall.succeeded = 2
    /\ Cardinality(AllThrowaways) = 2
    /\ LiveThrowaways = {}
    /\ \A p \in AllThrowaways : servers[p[1]][p[2]].closes = 1

(***************************************************************************)
(* Properties of two concurrent create_driver calls on one remote          *)
(* controller.                                                             *)
(***************************************************************************)
\* no call is between its first and its last statement
Quiescent == \A c \in Callers : ~InProgress(c)

\* some session that exists independently of the controller has received a
\* close-window command
TargetClosed ==
    \E a \in Addresses : \E s \in PreExisting(a) : servers[a][s].closes > 0

\* the environment has failed an external call of some caller
EnvironmentFailed ==
    \E c \in Callers :
        frames[c].outcome = "raised" /\ frames[c].failed_step = frames[c].failAt

=============================================================================
